---------------------------- MODULE Spec2Model ----------------------------
(***************************************************************************)
(* A model of pyine (src/src/pyine): the Response classification of        *)
(* models.py / exceptions.py, the query construction of api.request, the   *)
(* table and metadata construction of api.get_indicator and the export of  *)
(* Indicator.to_dict.                                                      *)
(*                                                                         *)
(* JSON values are records tagged by "kind".  Strings that the code takes  *)
(* apart (period labels, category codes) are sequences of tokens; strings  *)
(* that the code sorts (column labels) are naturals in lexicographic       *)
(* order.                                                                  *)
(***************************************************************************)
EXTENDS Integers, Sequences, FiniteSets, TLC

VARIABLES
    call,          \* the function of the package the caller invokes
    pc,            \* "start", "allocated" (get_indicator at line 146),
                   \* "returned", "exported" (to_dict ran on the result)
    response,      \* the Response that raise_for_status is called on
    indicator_code,\* argument of request / get_indicator
    data_type,     \* argument of request
    dim_values,    \* argument of request / get_indicator (the caller's dict),
                   \* then what get_indicator rebinds the name to
    sent,          \* the GET requests issued, in order
    data,          \* argument of get_indicator (None: fetch it), then data[0]
    metadata,      \* argument of get_indicator (None: fetch it), then metadata[0]
    df,            \* the frame get_indicator builds
    data_res,      \* what the server answers to the data request
    meta_res,      \* what the server answers to the metadata request
    result,        \* what the called function returned, or what it raised
    exported       \* what Indicator.to_dict returned (or raised)

vars == <<call, pc, response, indicator_code, data_type, dim_values,
          sent, data, metadata, df, data_res, meta_res, result, exported>>

-----------------------------------------------------------------------------
(* JSON / Python values *)

None == [kind |-> "None"]
Absent == [kind |-> "absent"]              \* a key that is not in a dict
JList(items) == [kind |-> "list", items |-> items]
JObject == [kind |-> "dict"]               \* a body that is a JSON object
PyDict(items) == [kind |-> "dict", items |-> items]
NotRun == [kind |-> "notrun"]
Raised(e) == [kind |-> "raised", error |-> e]
Returned(v) == [kind |-> "returned", value |-> v]

Range(s) == {s[i] : i \in DOMAIN s}

-----------------------------------------------------------------------------
(* models.py: Response, exceptions.py: INEInvalidRequestError *)

\* requests.Response.raise_for_status, called at models.py:29, raises
\* HTTPError for 4xx (client error) and 5xx (server error) status codes.
HTTPErrorStatus(status_code) == status_code >= 400 /\ status_code < 600

\* Python's `a and b and c and d` yields the first falsy operand; the
\* caller only tests its truth value.
is_ine_error(body) ==
    /\ body.kind = "list"
    /\ body.items # <<>>
    /\ body.items[1].Sucesso.kind # "absent"
    /\ body.items[1].Sucesso.Falso.kind # "absent"

get_ine_errors(body) ==
    IF /\ body.kind = "list"
       /\ body.items # <<>>
       /\ body.items[1].Sucesso.kind # "absent"
       /\ body.items[1].Sucesso.Falso.kind # "absent"
       /\ body.items[1].Sucesso.Falso.kind = "list"
       /\ body.items[1].Sucesso.Falso.items # <<>>
    THEN body.items[1].Sucesso.Falso.items
    ELSE <<>>

INEInvalidRequestError(res) ==
    [kind |-> "raised", error |-> "INEInvalidRequestError",
     ine_errors |-> get_ine_errors(res.body)]

raise_for_status(res) ==
    IF HTTPErrorStatus(res.status_code) THEN Raised("HTTPError")
    ELSE IF is_ine_error(res.body) THEN INEInvalidRequestError(res)
    ELSE Returned(None)

-----------------------------------------------------------------------------
(* Python dicts: sequences of [key, value] in insertion order, keys unique *)

HasKey(d, k) == \E i \in DOMAIN d : d[i].key = k
Get(d, k) == d[CHOOSE i \in DOMAIN d : d[i].key = k].value
Put(d, k, v) ==
    IF HasKey(d, k)
    THEN [i \in DOMAIN d |-> IF d[i].key = k THEN [key |-> k, value |-> v] ELSE d[i]]
    ELSE Append(d, [key |-> k, value |-> v])

\* The keys a caller may use in dim_values: the string "Dim<n>", the
\* string "<n>" and the int <n>.
DimKey(n) == [t |-> "Dim", n |-> n]
DigitsKey(n) == [t |-> "digits", n |-> n]
IntKey(n) == [t |-> "int", n |-> n]

\* str(key), and the {key} of an f-string
str(key) == IF key.t = "int" THEN DigitsKey(key.n) ELSE key

\* The category code "T" (total)
T == <<"T">>

-----------------------------------------------------------------------------
(* api.py: request *)

RECURSIVE join_items(_)
join_items(d) ==
    IF d = <<>> THEN <<>>
    ELSE <<[name |-> str(d[1].key), value |-> d[1].value]>> \o join_items(Tail(d))

\* The dict as request leaves it: "Dim1" is added to the caller's dict
\* itself.
request_dim_values(dv) ==
    IF dv.kind = "None" THEN None
    ELSE IF ~HasKey(dv.items, DimKey(1)) THEN PyDict(Put(dv.items, DimKey(1), T))
    ELSE dv

\* The parameters after "&lang=EN&"
dim_values_str(dv) ==
    IF dv.kind = "None" THEN <<[name |-> DimKey(1), value |-> T]>>
    ELSE join_items(request_dim_values(dv).items)

request(code, dtype, dv) ==
    IF dtype = "data"
    THEN [kind |-> "returned",
          get |-> <<[url |-> "pindica.jsp", varcd |-> code,
                     params |-> dim_values_str(dv)]>>,
          dim_values |-> request_dim_values(dv)]
    ELSE IF dtype = "metadata"
    THEN [kind |-> "returned",
          get |-> <<[url |-> "pindicaMeta.jsp", varcd |-> code, params |-> <<>>]>>,
          dim_values |-> dv]
    ELSE [kind |-> "raised", error |-> "ValueError", get |-> <<>>,
          dim_values |-> dv]

-----------------------------------------------------------------------------
(* api.py: quarter_to_date and the pd.to_datetime calls of get_indicator *)

\* A period label is the sequence of its whitespace-separated tokens
\* (str.split()).  The tokens strptime's %Y accepts (four digits):
Digits4 == {"2020", "2021"}
year_value(tok) == IF tok = "2020" THEN 2020 ELSE 2021

\* %B accepts the month names whatever their letter case
lower(tok) ==
    CASE tok = "March" -> "march"
      [] tok = "June" -> "june"
      [] OTHER -> tok
MonthNames == {"march", "june"}
month_value(name) == IF name = "march" THEN 3 ELSE 6

Timestamp(y, m) == [kind |-> "Timestamp", year |-> y, month |-> m, day |-> 1]

\* pd.to_datetime(label, format="%Y")
to_datetime_Y(label) ==
    IF Len(label) = 1 /\ label[1] \in Digits4
    THEN Timestamp(year_value(label[1]), 1)
    ELSE Raised("ValueError")

\* pd.to_datetime(label, format="%B %Y")
to_datetime_BY(label) ==
    IF Len(label) = 2 /\ lower(label[1]) \in MonthNames /\ label[2] \in Digits4
    THEN Timestamp(year_value(label[2]), month_value(lower(label[1])))
    ELSE Raised("ValueError")

\* The first month of each quarter instead of its last: what the map is not
quarter_month_map_first_month(quarter) ==
    CASE quarter = "1st" -> 1
      [] quarter = "2nd" -> 4
      [] quarter = "3rd" -> 7
      [] quarter = "4th" -> 10
      [] OTHER -> 1

\* quarter_month_map.get(quarter, 1)
quarter_month_map_get(quarter) ==
    CASE quarter = "1st" -> 3
      [] quarter = "2nd" -> 6
      [] quarter = "3rd" -> 9
      [] quarter = "4th" -> 12
      [] OTHER -> 1

\* parts[0] is the quarter and parts[2] the year; the f-string
\* "{year}-{month}" is parsed with format "%Y-%m".
quarter_to_date(quarter_string) ==
    IF Len(quarter_string) < 3 THEN Raised("IndexError")
    ELSE IF quarter_string[3] \notin Digits4 THEN Raised("ValueError")
    ELSE Timestamp(year_value(quarter_string[3]),
                   quarter_month_map_get(quarter_string[1]))

\* The conversion get_indicator applies to one label under a periodicity
\* (api.py:153-158 for the row labels, api.py:191-196 for the metadata
\* fields); any other periodicity leaves the label as it is.
convert_period(Periodic, label) ==
    IF Periodic \in {"Annual", "Decennial"} THEN to_datetime_Y(label)
    ELSE IF Periodic = "Quarterly" THEN quarter_to_date(label)
    ELSE IF Periodic = "Monthly" THEN to_datetime_BY(label)
    ELSE [kind |-> "str", parts |-> label]

\* value.strftime('%Y-%m-%d'); a str has no strftime
strftime(value) ==
    IF value.kind = "Timestamp"
    THEN [kind |-> "iso", year |-> value.year, month |-> value.month,
          day |-> value.day]
    ELSE Raised("AttributeError")

-----------------------------------------------------------------------------
(* api.py: get_indicator, the column axis (lines 116-140) *)

\* An entry of metadata["Dimensoes"]["Categoria_Dim"][0] is
\* [dim, cod, dsg]: its key is "Dim_Num<dim>_<cod>" and its value[0]
\* holds "categ_dsg".  A code is the sequence of its "_"-separated tokens.

\* key.startswith(f"Dim_Num{dim_num}"): the decimal digits of dim_num
\* are a prefix of those of the key's dimension number
RECURSIVE startswith_Dim_Num(_, _)
startswith_Dim_Num(dim, dim_num) ==
    \/ dim = dim_num
    \/ dim >= 10 /\ startswith_Dim_Num(dim \div 10, dim_num)

\* key.endswith(f"_{dim_value}"): the tokens of dim_value end the key
endswith_(cod, dim_value) ==
    /\ Len(dim_value) <= Len(cod)
    /\ SubSeq(cod, Len(cod) - Len(dim_value) + 1, Len(cod)) = dim_value

RECURSIVE dim_columns(_, _, _)
dim_columns(categoria, dv, dim_num) ==
    IF categoria = <<>> THEN <<>>
    ELSE LET c == categoria[1]
             rest == dim_columns(Tail(categoria), dv, dim_num)
         IN IF startswith_Dim_Num(c.dim, dim_num)
            THEN IF HasKey(dv, DimKey(dim_num))
                 THEN IF endswith_(c.cod, Get(dv, DimKey(dim_num)))
                      THEN <<c.dsg>> \o rest
                      ELSE rest
                 ELSE <<c.dsg>> \o rest
            ELSE rest

RECURSIVE col_index_iterables(_, _, _)
col_index_iterables(descricao, categoria, dv) ==
    IF descricao = <<>> THEN <<>>
    ELSE IF descricao[1].dim_num = 1
         THEN col_index_iterables(Tail(descricao), categoria, dv)
         ELSE <<dim_columns(categoria, dv, descricao[1].dim_num)>>
              \o col_index_iterables(Tail(descricao), categoria, dv)

\* pd.MultiIndex.from_product: the tuples in the order of the nested loops
RECURSIVE prepend_each(_, _)
prepend_each(x, tuples) ==
    IF tuples = <<>> THEN <<>>
    ELSE <<(<<x>> \o tuples[1])>> \o prepend_each(x, Tail(tuples))

RECURSIVE from_product(_)
RECURSIVE product_with(_, _)
product_with(first, rest) ==
    IF first = <<>> THEN <<>>
    ELSE prepend_each(first[1], rest) \o product_with(Tail(first), rest)

from_product(iterables) ==
    IF iterables = <<>> THEN <<(<<>>)>>
    ELSE product_with(iterables[1], from_product(Tail(iterables)))

\* df.sort_index(axis=1): the columns in lexicographic order of their
\* tuples (the frame holds no value yet)
RECURSIVE tuple_less(_, _)
tuple_less(a, b) ==
    IF a = <<>> \/ b = <<>> THEN FALSE
    ELSE \/ a[1] < b[1]
         \/ a[1] = b[1] /\ tuple_less(Tail(a), Tail(b))

RECURSIVE insert_sorted(_, _)
insert_sorted(t, sorted) ==
    IF sorted = <<>> THEN <<t>>
    ELSE IF tuple_less(t, sorted[1]) THEN <<t>> \o sorted
    ELSE <<sorted[1]>> \o insert_sorted(t, Tail(sorted))

RECURSIVE sort_index(_)
sort_index(columns) ==
    IF columns = <<>> THEN <<>>
    ELSE insert_sorted(columns[Len(columns)], sort_index(SubSeq(columns, 1, Len(columns) - 1)))

col_index(meta, dv) ==
    from_product(col_index_iterables(meta.Descricao_Dim, meta.Categoria_Dim, dv))

-----------------------------------------------------------------------------
(* api.py: get_indicator, the table (lines 142-160) *)

NaN == [kind |-> "NaN"]

\* A frame whose cells start at 0 instead of missing: what pd.DataFrame
\* does not do
DataFrame_zeros(index, columns) ==
    [index |-> index, columns |-> columns,
     values |-> [r \in DOMAIN index |->
                    [c \in DOMAIN columns |-> [kind |-> "number", n |-> 0]]]]

\* A frame: index (row labels), columns (tuples) and values[row][column]
DataFrame(index, columns) ==
    [index |-> index, columns |-> columns,
     values |-> [r \in DOMAIN index |-> [c \in DOMAIN columns |-> NaN]]]

raw_label(label) == [kind |-> "str", parts |-> label]

RECURSIVE Dados_keys(_)
Dados_keys(Dados) ==
    IF Dados = <<>> THEN <<>>
    ELSE <<raw_label(Dados[1].key)>> \o Dados_keys(Tail(Dados))

\* df.loc[date, key] = value.  pandas writes every column whose tuple is
\* key; when no column is, and key has one entry per level, .loc enlarges
\* the frame: it appends a column key, missing in every other row.
loc_setitem(frame, date, key, value) ==
    LET r == CHOOSE i \in DOMAIN frame.index : frame.index[i] = date
        hit == {c \in DOMAIN frame.columns : frame.columns[c] = key}
    IN IF hit # {}
       THEN [frame EXCEPT !.values =
                [i \in DOMAIN frame.index |->
                    [c \in DOMAIN frame.columns |->
                        IF i = r /\ c \in hit THEN value ELSE frame.values[i][c]]]]
       ELSE [frame EXCEPT !.columns = Append(frame.columns, key),
                       !.values =
                [i \in DOMAIN frame.index |->
                    Append(frame.values[i], IF i = r THEN value ELSE NaN)]]

\* (stat['geocod'],) + tuple(stat[f"dim_{i}_t"] for i in range(3, n + 1))
stat_key(stat) == <<stat.geocod>> \o stat.dim_t

RECURSIVE insert_stats(_, _, _)
insert_stats(frame, date, period_stats) ==
    IF period_stats = <<>> THEN frame
    ELSE LET stat == period_stats[1]
         IN insert_stats(
                IF stat.valor.kind # "absent"
                THEN loc_setitem(frame, date, stat_key(stat), stat.valor)
                ELSE frame,
                date, Tail(period_stats))

RECURSIVE insert_Dados(_, _)
insert_Dados(frame, Dados) ==
    IF Dados = <<>> THEN frame
    ELSE insert_Dados(insert_stats(frame, raw_label(Dados[1].key), Dados[1].value),
                      Tail(Dados))

\* The row labels after lines 153-158; the first label that cannot be
\* converted raises
convert_index(Periodic, index) ==
    LET conv == [i \in DOMAIN index |-> convert_period(Periodic, index[i].parts)]
        bad == {i \in DOMAIN index : conv[i].kind = "raised"}
    IN IF bad = {} THEN Returned(conv)
       ELSE conv[CHOOSE i \in bad : \A j \in bad : i <= j]

-----------------------------------------------------------------------------
(* api.py: get_indicator, the merged metadata (lines 162-207) *)

metadata_key_map_get(key) ==
    CASE key = "IndicadorCod" -> "code"
      [] key = "IndicadorDsg" -> "description"
      [] key = "MetaInfUrl" -> "meta_info_url"
      [] key = "DataUltimoAtualizacao" -> "last_update_date"
      [] key = "Periodic" -> "periodicity"
      [] key = "PrimeiroPeriodo" -> "first_period"
      [] key = "UltimoPref" -> "last_period"
      [] key = "UltimoPeriodo" -> "last_period"
      [] key = "UnidadeMedida" -> "unit"
      [] key = "Potencia10" -> "power_of_10"
      [] key = "PrecisaoDecimal" -> "decimal_precision"
      [] key = "Lingua" -> "language"
      [] OTHER -> key

\* {**data, **metadata}: the keys of data in their order, then the new
\* keys of metadata in theirs; metadata's value where both have the key.
\* The fields of a payload are its keys other than "Dados",
\* "DataExtracao", "Dimensoes" and "Sucesso", which the loop skips.
RECURSIVE update(_, _)
update(d, other) ==
    IF other = <<>> THEN d
    ELSE update(Put(d, other[1].key, other[1].value), Tail(other))

meta_fields(meta) ==
    <<[key |-> "Periodic", value |-> [kind |-> "str", text |-> meta.Periodic]]>>
    \o meta.fields

RECURSIVE merge_loop(_, _, _)
merge_loop(items, Periodic, merged) ==
    IF items = <<>> THEN Returned(merged)
    ELSE LET key == items[1].key
             value == items[1].value
         IN IF key \in {"PrimeiroPeriodo", "UltimoPeriodo"}
            THEN LET date == convert_period(Periodic, value.parts)
                     text == strftime(date)
                 IN IF date.kind = "raised" THEN date
                    ELSE IF text.kind = "raised" THEN text
                    ELSE merge_loop(Tail(items), Periodic,
                                    Put(merged, metadata_key_map_get(key), text))
            ELSE merge_loop(Tail(items), Periodic,
                            Put(merged, metadata_key_map_get(key), value))

\* The two tests in the other order: what lines 202-205 do not do
geo_level_2002_first(description) ==
    IF description.nuts2002 THEN "nuts-2002"
    ELSE IF description.nuts2013 THEN "nuts-2013"
    ELSE "national"

\* Lines 202-207
geo_level(description) ==
    IF description.nuts2013 THEN "nuts-2013"
    ELSE IF description.nuts2002 THEN "nuts-2002"
    ELSE "national"

merge_metadata(dat, meta) ==
    LET start == <<[key |-> "extraction_date",
                    value |-> [kind |-> "dict", data |-> dat.DataExtracao,
                               metadata |-> meta.DataExtracao]],
                   [key |-> "source", value |-> [kind |-> "str", text |-> "INE"]]>>
        looped == merge_loop(update(dat.fields, meta_fields(meta)), meta.Periodic, start)
    IN IF looped.kind = "raised" THEN looped
       ELSE IF ~HasKey(looped.value, "description") THEN Raised("KeyError")
       ELSE Returned(Put(looped.value, "geo_level",
                         [kind |-> "str",
                          text |-> geo_level(Get(looped.value, "description"))]))

-----------------------------------------------------------------------------
(* api.py: get_indicator *)

\* {str(key): value for key, value in dim_values.items()}, or {}
RECURSIVE str_keys(_, _)
str_keys(items, acc) ==
    IF items = <<>> THEN acc
    ELSE str_keys(Tail(items), Put(acc, str(items[1].key), items[1].value))

normalise_dim_values(dv) ==
    IF dv.kind = "None" THEN PyDict(<<>>) ELSE PyDict(str_keys(dv.items, <<>>))

\* body[0]
first_item(body) ==
    IF body.kind # "list" THEN Raised("KeyError")
    ELSE IF body.items = <<>> THEN Raised("IndexError")
    ELSE Returned(body.items[1])

Indicator(frame, merged) == [kind |-> "Indicator", data |-> frame, metadata |-> merged]

\* Lines 95-144: the arguments, the requests, data[0] and metadata[0],
\* the column axis and the empty frame
get_indicator_allocate(code, dv, dat, meta, dres, mres) ==
    LET dv0 == normalise_dim_values(dv)
        dreq == request(code, "data", dv0)
        dsent == IF dat.kind = "None" THEN dreq.get ELSE <<>>
        dv1 == IF dat.kind = "None" THEN dreq.dim_values ELSE dv0
        dstatus == IF dat.kind = "None" THEN raise_for_status(dres) ELSE Returned(None)
        data_body == IF dat.kind = "None" THEN dres.body ELSE dat
        mreq == request(code, "metadata", None)
        msent == IF meta.kind = "None" THEN mreq.get ELSE <<>>
        mstatus == IF meta.kind = "None" THEN raise_for_status(mres) ELSE Returned(None)
        meta_body == IF meta.kind = "None" THEN mres.body ELSE meta
        d0 == first_item(data_body)
        m0 == first_item(meta_body)
        raises(e, reqs, d) ==
            [kind |-> "raised", result |-> e, sent |-> reqs, dim_values |-> d]
    IN IF code.kind = "None" /\ (dat.kind = "None" \/ meta.kind = "None")
       THEN raises(Raised("ValueError"), <<>>, dv)
       ELSE IF dstatus.kind = "raised" THEN raises(dstatus, dsent, dv1)
       ELSE IF mstatus.kind = "raised" THEN raises(mstatus, dsent \o msent, dv1)
       ELSE IF d0.kind = "raised" THEN raises(d0, dsent \o msent, dv1)
       ELSE IF m0.kind = "raised" THEN raises(m0, dsent \o msent, dv1)
       ELSE [kind |-> "allocated", sent |-> dsent \o msent, dim_values |-> dv1,
             data |-> d0.value, metadata |-> m0.value,
             df |-> DataFrame(Dados_keys(d0.value.Dados),
                              sort_index(col_index(m0.value, dv1.items)))]

\* Lines 146-209: the records, the row labels, the merged metadata
get_indicator_fill(frame, dat, meta) ==
    LET df1 == insert_Dados(frame, dat.Dados)
        idx == convert_index(meta.Periodic, df1.index)
        df2 == [df1 EXCEPT !.index = idx.value]
        merged == merge_metadata(dat, meta)
    IN IF idx.kind = "raised" THEN [df |-> df1, result |-> idx]
       ELSE IF merged.kind = "raised" THEN [df |-> df2, result |-> merged]
       ELSE [df |-> df2, result |-> Returned(Indicator(df2, merged.value))]

-----------------------------------------------------------------------------
(* models.py: Indicator.to_dict *)

\* A coercion that keeps numbers only and parses no string: what
\* pd.to_numeric does not do
to_numeric_numbers_only(cell) ==
    IF cell.kind = "number" THEN cell ELSE [kind |-> "NaN"]

\* pd.to_numeric(..., errors="coerce"): a number, the number a string
\* spells, or NaN
to_numeric(cell) ==
    IF cell.kind = "number" THEN cell
    ELSE IF cell.kind = "str" /\ cell.numeric THEN [kind |-> "number", n |-> cell.n]
    ELSE NaN

\* df.melt: one record per column and row, the columns outermost
RECURSIVE melt_rows(_, _, _)
melt_rows(frame, c, r) ==
    IF r > Len(frame.index) THEN <<>>
    ELSE <<[Period |-> strftime(frame.index[r]), levels |-> frame.columns[c],
            Value |-> to_numeric(frame.values[r][c])]>>
         \o melt_rows(frame, c, r + 1)

RECURSIVE melt(_, _)
melt(frame, c) ==
    IF c > Len(frame.columns) THEN <<>>
    ELSE melt_rows(frame, c, 1) \o melt(frame, c + 1)

\* .dt.strftime needs a column of dates
to_dict(self) ==
    IF \E r \in DOMAIN self.data.index : self.data.index[r].kind # "Timestamp"
    THEN Raised("AttributeError")
    ELSE Returned([metadata |-> self.metadata, data |-> melt(self.data, 1)])

-----------------------------------------------------------------------------
(* The inputs the behaviours start from *)

MaxBodyItems == 2      \* elements of a response body
MaxFilters == 2        \* entries of the dim_values handed to request
MaxCats == 2           \* categories of a dimension
MaxPeriods == 2        \* periods of "Dados" where the labels vary
MaxStats == 2          \* stat records of "Dados" where the records vary
MaxFields == 2         \* period fields of a payload where the fields vary

SeqsUpTo(S, n) == UNION {[1..k -> S] : k \in 0..n}
Distinct(s) == \A i, j \in DOMAIN s : i # j => s[i] # s[j]
DistinctKeys(d) == \A i, j \in DOMAIN d : i # j => d[i].key # d[j].key

Str(text) == [kind |-> "str", text |-> text]
Code0006341 == Str("0006341")

\* Response bodies
ErrorRecords == {[kind |-> "dict", Msg |-> "m1"], [kind |-> "dict", Msg |-> "m2"]}
FalsoValues == {Absent, JList(<<>>), JObject}
               \cup {JList(<<e>>) : e \in ErrorRecords}
               \cup {JList(<<e1, e2>>) : e1 \in ErrorRecords, e2 \in ErrorRecords}
SucessoValues == {Absent} \cup {[kind |-> "dict", Falso |-> f] : f \in FalsoValues}
Verdadeiro == [kind |-> "dict", Falso |-> Absent]
Elements == {[kind |-> "dict", Sucesso |-> x] : x \in SucessoValues}
Bodies == {JObject} \cup {JList(items) : items \in SeqsUpTo(Elements, MaxBodyItems)}
StatusCodes == {200, 204, 399, 400, 404, 499, 500, 599, 600}
Response(status_code, body) == [status_code |-> status_code, body |-> body]

\* dim_values
CodeA == <<"a">>
CodeB == <<"b">>
CodeBA == <<"b", "a">>                    \* the code "b_a"
CodeC == <<"c">>
RequestKeys == {DimKey(1), DigitsKey(1), IntKey(1), DimKey(3), IntKey(3)}
RequestDicts ==
    {PyDict(d) : d \in {x \in SeqsUpTo([key : RequestKeys, value : {CodeA, T}], MaxFilters) :
                            DistinctKeys(x)}}

\* Payloads
DataPayload(Dados, fields, sucesso) ==
    [kind |-> "dict", Sucesso |-> sucesso, Dados |-> Dados,
     DataExtracao |-> Str("extracted-data"), fields |-> fields]
MetaPayload(Periodic, Descricao_Dim, Categoria_Dim, fields) ==
    [kind |-> "dict", Sucesso |-> Verdadeiro, Periodic |-> Periodic,
     Descricao_Dim |-> Descricao_Dim, Categoria_Dim |-> Categoria_Dim,
     DataExtracao |-> Str("extracted-metadata"), fields |-> fields]

Description(nuts2013, nuts2002) ==
    [kind |-> "str", nuts2013 |-> nuts2013, nuts2002 |-> nuts2002]
PlainFields == <<[key |-> "IndicadorDsg", value |-> Description(FALSE, FALSE)]>>

\* Dimensions 1..n, dimension 1 with one category, the others with cats[d]
Descricao(n) == [i \in 1..n |-> [dim_num |-> i]]
RECURSIVE CategoriaFrom(_, _, _)
CategoriaFrom(cats, d, n) ==
    IF d > n THEN <<>>
    ELSE [i \in DOMAIN cats[d] |-> [dim |-> d, cod |-> cats[d][i].cod, dsg |-> cats[d][i].dsg]]
         \o CategoriaFrom(cats, d + 1, n)
Categoria(cats, n) ==
    <<[dim |-> 1, cod |-> <<"p">>, dsg |-> 1]>> \o CategoriaFrom(cats, 2, n)

Cat(cod, dsg) == [cod |-> cod, dsg |-> dsg]
Cats == {Cat(CodeA, 1), Cat(CodeB, 2), Cat(CodeBA, 1), Cat(CodeBA, 3)}
DistinctCods(s) == \A i, j \in DOMAIN s : i # j => s[i].cod # s[j].cod
CatLists == {s \in SeqsUpTo(Cats, MaxCats) : s # <<>> /\ DistinctCods(s)}

Number(n) == [kind |-> "number", n |-> n]
NumericStr(n) == [kind |-> "str", numeric |-> TRUE, n |-> n]     \* "5"
OtherStr == [kind |-> "str", numeric |-> FALSE, n |-> 0]         \* "x"
Stat(geocod, dim_t, valor) == [geocod |-> geocod, dim_t |-> dim_t, valor |-> valor]
Period(label, stats) == [key |-> label, value |-> stats]

Periodicities == {"Annual", "Decennial", "Quarterly", "Monthly", "Semiannual"}

L2020 == <<"2020">>
L2021 == <<"2021">>
RowLabels ==
    {L2020, L2021,
     <<"1st", "Quarter", "2020">>, <<"4th", "Quarter", "2020">>,
     <<"1st", "Quarter", "2021">>, <<"1st", "Trimester", "2020">>,
     <<"5th", "Quarter", "2020">>, <<"6th", "Quarter", "2020">>,
     <<"1st", "quarter", "of", "2021">>,
     <<"March", "2020">>, <<"march", "2020">>, <<"June", "2020">>,
     <<"S1", "2020">>}
FieldLabels(Periodic) ==
    CASE Periodic \in {"Annual", "Decennial"} -> {L2020, L2021}
      [] Periodic = "Quarterly" ->
            {<<"1st", "Quarter", "2020">>, <<"4th", "Quarter", "2021">>}
      [] Periodic = "Monthly" -> {<<"March", "2020">>, <<"June", "2021">>}
      [] OTHER -> {<<"S1", "2020">>, <<"S2", "2021">>}
PeriodKeys == {"PrimeiroPeriodo", "UltimoPeriodo", "UltimoPref"}
FieldLists(Periodic) ==
    {d \in SeqsUpTo([key : PeriodKeys,
                     value : {raw_label(l) : l \in FieldLabels(Periodic)}], MaxFields) :
        DistinctKeys(d)}

OneCategory == [d \in {2} |-> <<Cat(CodeA, 1)>>]
TwoCategories == [d \in {2} |-> <<Cat(CodeA, 1), Cat(CodeB, 2)>>]
SameLabel == [d \in {2} |-> <<Cat(CodeA, 1), Cat(CodeBA, 1)>>]
TwoByTwo == [d \in {2, 3} |-> IF d = 2 THEN <<Cat(CodeA, 1)>>
                              ELSE <<Cat(CodeA, 1), Cat(CodeB, 2)>>]

\* The filters tried on the column axis
AxisKeys == {DimKey(2), DimKey(3), IntKey(3), DigitsKey(3)}
AxisValues == {CodeA, CodeBA, CodeC}
AxisFilters ==
    {None, PyDict(<<>>)}
    \cup {PyDict(<<[key |-> k, value |-> v]>>) : k \in AxisKeys, v \in AxisValues}
    \cup {PyDict(<<[key |-> DimKey(2), value |-> v], [key |-> k, value |-> w]>>) :
            v \in AxisValues, w \in AxisValues, k \in {DimKey(3), IntKey(3)}}

OneStat(n) == <<Stat(1, IF n = 3 THEN <<1>> ELSE <<>>, NumericStr(5))>>

\* The stat records tried on the table
StatKinds(n) ==
    {Stat(g, dt, v) : g \in {1, 3},
                      dt \in (IF n = 3 THEN {<<1>>, <<2>>} ELSE {<<>>}),
                      v \in {Absent, Number(0), NumericStr(5), OtherStr}}
RECURSIVE TotalLen(_, _)
TotalLen(f, i) == IF i = 0 THEN 0 ELSE Len(f[i]) + TotalLen(f, i - 1)
StatsFor(labels, n) ==
    {f \in [DOMAIN labels -> SeqsUpTo(StatKinds(n), MaxStats)] :
        TotalLen(f, Len(labels)) <= MaxStats}
CellConfigs ==
    {[n |-> 2, cats |-> TwoCategories, dv |-> None, Periodic |-> "Annual", labels |-> l] :
        l \in {<<L2020>>, <<L2020, L2021>>}}
    \cup {[n |-> 3, cats |-> TwoByTwo, dv |-> PyDict(<<[key |-> DimKey(3), value |-> CodeA]>>),
           Periodic |-> "Annual", labels |-> l] : l \in {<<L2020>>, <<L2020, L2021>>}}
    \cup {[n |-> 2, cats |-> SameLabel, dv |-> None, Periodic |-> "Annual",
           labels |-> <<L2020>>],
          [n |-> 2, cats |-> TwoCategories, dv |-> None, Periodic |-> "Quarterly",
           labels |-> << <<"5th", "Quarter", "2020">>, <<"6th", "Quarter", "2020">> >>],
          [n |-> 2, cats |-> TwoCategories, dv |-> None, Periodic |-> "Semiannual",
           labels |-> << <<"S1", "2020">> >>]}

\* What the server may answer
GoodData == DataPayload(<<Period(L2020, OneStat(2))>>, PlainFields, Verdadeiro)
GoodMeta == MetaPayload("Annual", Descricao(2), Categoria(OneCategory, 2), <<>>)
DataAnswers ==
    {Response(st, b) : st \in {200, 404},
        b \in {JObject, JList(<<>>), JList(<<GoodData>>)}
              \cup {JList(<<DataPayload(<<Period(L2020, OneStat(2))>>, PlainFields,
                                        [kind |-> "dict", Falso |-> f])>>) :
                        f \in {JList(<<>>), JList(<<[kind |-> "dict", Msg |-> "m1"]>>)}}}
MetaAnswers == {Response(st, JList(<<GoodMeta>>)) : st \in {200, 500}}
FetchDicts ==
    {None, PyDict(<<>>)}
    \cup {PyDict(<<[key |-> k, value |-> CodeA]>>) : k \in {DimKey(1), IntKey(1), DimKey(3)}}

NoResponse == Response(200, JObject)

-----------------------------------------------------------------------------
(* The behaviours *)

Setup(c, res, code, dtype, dv, dat, meta, dres, mres) ==
    /\ call = c
    /\ pc = "start"
    /\ response = res
    /\ indicator_code = code
    /\ data_type = dtype
    /\ dim_values = dv
    /\ data = dat
    /\ metadata = meta
    /\ df = None
    /\ data_res = dres
    /\ meta_res = mres
    /\ sent = <<>>
    /\ result = NotRun
    /\ exported = NotRun

\* A call of Response.raise_for_status
InitRaiseForStatus ==
    \E st \in StatusCodes, b \in Bodies :
        Setup("raise_for_status", Response(st, b), None, "data", None, None, None,
              NoResponse, NoResponse)

\* A call of request
InitRequest ==
    \E dtype \in {"data", "metadata", "indicators"}, dv \in {None} \cup RequestDicts :
        Setup("request", NoResponse, Code0006341, dtype, dv, None, None,
              Response(200, JList(<<GoodData>>)), Response(200, JList(<<GoodMeta>>)))

GetIndicatorOn(dv, dat, meta) ==
    Setup("get_indicator", NoResponse, None, "data", dv, JList(<<dat>>), JList(<<meta>>),
          NoResponse, NoResponse)

\* get_indicator on payloads whose dimensions and filters vary
InitAxis ==
    \E n \in {2, 3} : \E cats \in [2..n -> CatLists], dv \in AxisFilters :
        GetIndicatorOn(dv,
            DataPayload(<<Period(L2020, OneStat(n))>>, PlainFields, Verdadeiro),
            MetaPayload("Annual", Descricao(n), Categoria(cats, n), <<>>))

\* get_indicator on payloads whose period labels vary
InitRows ==
    \E Periodic \in Periodicities :
    \E labels \in {l \in SeqsUpTo(RowLabels, MaxPeriods) : l # <<>> /\ Distinct(l)} :
        GetIndicatorOn(None,
            DataPayload([i \in DOMAIN labels |->
                            Period(labels[i], <<Stat(1, <<>>, Number(i))>>)],
                        PlainFields, Verdadeiro),
            MetaPayload(Periodic, Descricao(2), Categoria(OneCategory, 2), <<>>))

\* get_indicator on payloads whose stat records vary
InitCells ==
    \E cfg \in CellConfigs : \E stats \in StatsFor(cfg.labels, cfg.n) :
        GetIndicatorOn(cfg.dv,
            DataPayload([i \in DOMAIN cfg.labels |-> Period(cfg.labels[i], stats[i])],
                        PlainFields, Verdadeiro),
            MetaPayload(cfg.Periodic, Descricao(cfg.n), Categoria(cfg.cats, cfg.n), <<>>))

\* get_indicator on payloads whose period fields vary
InitFields ==
    \E Periodic \in Periodicities :
    \E dfields \in FieldLists(Periodic), mfields \in FieldLists(Periodic) :
        GetIndicatorOn(None,
            DataPayload(<<Period(CHOOSE l \in FieldLabels(Periodic) : TRUE, OneStat(2))>>,
                        PlainFields \o dfields, Verdadeiro),
            MetaPayload(Periodic, Descricao(2), Categoria(OneCategory, 2), mfields))

\* get_indicator on payloads whose description varies (and may be missing,
\* or given by the metadata payload)
InitDescription ==
    \E Periodic \in Periodicities, nuts2013 \in BOOLEAN, nuts2002 \in BOOLEAN :
    \E dfields \in {<<>>, PlainFields}, mfields \in {<<>>, PlainFields} :
    \E where \in {"data", "metadata", "nowhere"} :
        LET d == <<[key |-> "IndicadorDsg", value |-> Description(nuts2013, nuts2002)]>>
        IN GetIndicatorOn(None,
                DataPayload(<<Period(CHOOSE l \in FieldLabels(Periodic) : TRUE, OneStat(2))>>,
                            IF where = "data" THEN d ELSE dfields, Verdadeiro),
                MetaPayload(Periodic, Descricao(2), Categoria(OneCategory, 2),
                            IF where = "metadata" THEN d ELSE mfields))

\* get_indicator fetching what it is not given
InitFetch ==
    \E code \in {None, Code0006341},
       dat \in {None, JList(<<GoodData>>)}, meta \in {None, JList(<<GoodMeta>>)},
       dres \in DataAnswers, mres \in MetaAnswers, dv \in FetchDicts :
        Setup("get_indicator", NoResponse, code, "data", dv, dat, meta, dres, mres)

Init ==
    \/ InitRaiseForStatus
    \/ InitRequest
    \/ InitAxis
    \/ InitRows
    \/ InitCells
    \/ InitFields
    \/ InitDescription
    \/ InitFetch

RaiseForStatus ==
    /\ call = "raise_for_status"
    /\ pc = "start"
    /\ result' = raise_for_status(response)
    /\ pc' = "returned"
    /\ UNCHANGED <<call, response, indicator_code, data_type, dim_values, sent,
                   data, metadata, df, data_res, meta_res, exported>>

\* request returns the Response wrapping the server's answer
Request ==
    /\ call = "request"
    /\ pc = "start"
    /\ LET r == request(indicator_code, data_type, dim_values)
       IN /\ result' = IF r.kind = "raised" THEN Raised(r.error)
                       ELSE Returned(IF data_type = "data" THEN data_res ELSE meta_res)
          /\ sent' = r.get
          /\ dim_values' = r.dim_values
    /\ pc' = "returned"
    /\ UNCHANGED <<call, response, indicator_code, data_type, data, metadata, df,
                   data_res, meta_res, exported>>

GetIndicatorAllocate ==
    /\ call = "get_indicator"
    /\ pc = "start"
    /\ LET r == get_indicator_allocate(indicator_code, dim_values, data, metadata,
                                       data_res, meta_res)
       IN /\ sent' = r.sent
          /\ dim_values' = r.dim_values
          /\ IF r.kind = "raised"
             THEN /\ result' = r.result
                  /\ pc' = "returned"
                  /\ UNCHANGED <<data, metadata, df>>
             ELSE /\ data' = r.data
                  /\ metadata' = r.metadata
                  /\ df' = r.df
                  /\ pc' = "allocated"
                  /\ UNCHANGED result
    /\ UNCHANGED <<call, response, indicator_code, data_type, data_res, meta_res,
                   exported>>

GetIndicatorFill ==
    /\ call = "get_indicator"
    /\ pc = "allocated"
    /\ LET r == get_indicator_fill(df, data, metadata)
       IN /\ df' = r.df
          /\ result' = r.result
    /\ pc' = "returned"
    /\ UNCHANGED <<call, response, indicator_code, data_type, dim_values, sent,
                   data, metadata, data_res, meta_res, exported>>

ToDict ==
    /\ call = "get_indicator"
    /\ pc = "returned"
    /\ result.kind = "returned"
    /\ exported' = to_dict(result.value)
    /\ pc' = "exported"
    /\ UNCHANGED <<call, response, indicator_code, data_type, dim_values, sent,
                   data, metadata, df, data_res, meta_res, result>>

Next ==
    \/ RaiseForStatus
    \/ Request
    \/ GetIndicatorAllocate
    \/ GetIndicatorFill
    \/ ToDict

Spec == Init /\ [][Next]_vars

-----------------------------------------------------------------------------
(* Response.raise_for_status *)

RaiseForStatusDone == call = "raise_for_status" /\ pc = "returned"

\* The body is a non-empty list whose first element has a "Sucesso" holding
\* a non-empty "Falso" list
HasFailureList(body) ==
    /\ body.kind = "list"
    /\ body.items # <<>>
    /\ body.items[1].Sucesso.kind = "dict"
    /\ body.items[1].Sucesso.Falso.kind = "list"
    /\ body.items[1].Sucesso.Falso.items # <<>>

\* C1: on a status that is no client/server error, raise_for_status raises
\* INEInvalidRequestError exactly when the body is a non-empty list whose
\* first element's "Sucesso" holds a non-empty "Falso" list, the error
\* carrying that list, and raises nothing otherwise; on a client/server
\* error status the outcome is the HTTP failure whatever the body.
C1_Classification ==
    RaiseForStatusDone =>
        IF response.status_code \in 400..599
        THEN result = Raised("HTTPError")
        ELSE IF HasFailureList(response.body)
        THEN result = [kind |-> "raised", error |-> "INEInvalidRequestError",
                       ine_errors |-> response.body.items[1].Sucesso.Falso.items]
        ELSE result = Returned(None)

-----------------------------------------------------------------------------
(* request *)

\* The query of a data request that a step sends
DataQuerySent ==
    \/ Request /\ data_type = "data"
    \/ GetIndicatorAllocate /\ sent' # <<>> /\ sent'[1].url = "pindica.jsp"

CallerItems == IF dim_values.kind = "None" THEN <<>> ELSE dim_values.items

\* The caller's mapping names dimension 1 as "Dim1" or as the number 1
NamesDim1(key) == key = DimKey(1) \/ key = IntKey(1)

Dim1Parameters(params) == {j \in DOMAIN params : params[j].name = DimKey(1)}

\* C2: the query of a data request holds exactly one parameter for
\* dimension 1, with the caller's code when the caller's mapping names
\* dimension 1 (by name or by number) and with "T" otherwise, and every
\* other filter of the caller as it was given.
C2_Dim1Parameter ==
    [][DataQuerySent =>
        LET params == sent'[1].params
        IN /\ Cardinality(Dim1Parameters(params)) = 1
           /\ \A j \in Dim1Parameters(params) :
                IF \E i \in DOMAIN CallerItems : NamesDim1(CallerItems[i].key)
                THEN \E i \in DOMAIN CallerItems :
                        /\ NamesDim1(CallerItems[i].key)
                        /\ params[j].value = CallerItems[i].value
                ELSE params[j].value = T
           /\ \A i \in DOMAIN CallerItems :
                ~NamesDim1(CallerItems[i].key) =>
                    \E j \in DOMAIN params :
                        /\ params[j].name = str(CallerItems[i].key)
                        /\ params[j].value = CallerItems[i].value]_vars

-----------------------------------------------------------------------------
(* get_indicator: the column axis *)

Allocated == call = "get_indicator" /\ pc = "allocated"

NumDims == Len(metadata.Descricao_Dim)
CatsOf(d) == SelectSeq(metadata.Categoria_Dim, LAMBDA c : c.dim = d)

\* The values the caller gave for dimension d, under its name "Dim<d>" or
\* under its number (a number is the string of its digits by now)
SuppliedFor(d) ==
    {dim_values.items[i].value : i \in {j \in DOMAIN dim_values.items :
        dim_values.items[j].key \in {DimKey(d), DigitsKey(d)}}}

Pinned(d) == \E v \in SuppliedFor(d) : \E i \in DOMAIN CatsOf(d) : CatsOf(d)[i].cod = v

Factor(d) == IF Pinned(d) THEN 1 ELSE Len(CatsOf(d))

RECURSIVE ProductOfFactors(_)
ProductOfFactors(d) == IF d < 2 THEN 1 ELSE Factor(d) * ProductOfFactors(d - 1)

\* The inputs on which a category is known by its label and a filter value
\* by the one code it equals: within a dimension no two categories share a
\* label, no code ends with "_" and another code, and every value the
\* caller gives is a code of its dimension.
PlainAxisInput ==
    \A d \in 2..NumDims :
        /\ \A i, j \in DOMAIN CatsOf(d) :
                i # j => /\ CatsOf(d)[i].dsg # CatsOf(d)[j].dsg
                         /\ ~endswith_(CatsOf(d)[i].cod, CatsOf(d)[j].cod)
        /\ \A v \in SuppliedFor(d) : \E i \in DOMAIN CatsOf(d) : CatsOf(d)[i].cod = v

\* C3: the table has as many columns as the product, over the dimensions
\* other than 1, of the dimension's category count, a dimension for which
\* the caller gave (by name or by number) one of its category codes
\* counting 1; a dimension without a filter keeps all its categories; no
\* column tuple occurs twice.
C3_ColumnCount ==
    (Allocated /\ PlainAxisInput) =>
        /\ Len(df.columns) = ProductOfFactors(NumDims)
        /\ \A d \in 2..NumDims :
                (SuppliedFor(d) = {} /\ df.columns # <<>>) =>
                    {df.columns[c][d - 1] : c \in DOMAIN df.columns}
                        = {CatsOf(d)[i].dsg : i \in DOMAIN CatsOf(d)}
        /\ Distinct(df.columns)

-----------------------------------------------------------------------------
(* get_indicator: the records *)

\* A stat record of the period of row r that carries a value and whose key
\* is the tuple key
WrittenBy(r, key, cell) ==
    \E i \in DOMAIN data.Dados[r].value :
        LET stat == data.Dados[r].value[i]
        IN /\ stat.valor.kind # "absent"
           /\ stat_key(stat) = key
           /\ stat.valor = cell

\* C4: inserting the records adds no column and raises nothing for a record
\* whose key is not a column: the columns stay those of the column axis, and
\* every non-empty cell holds the value of a record of its period whose key
\* is the cell's column.
C4_UnmatchedDropped ==
    [][GetIndicatorFill =>
        /\ df'.columns = df.columns
        /\ \A r \in DOMAIN df'.values : \A c \in DOMAIN df'.columns :
                df'.values[r][c] # NaN =>
                    WrittenBy(r, df'.columns[c], df'.values[r][c])]_vars

-----------------------------------------------------------------------------
(* Indicator.to_dict *)

Exported == call = "get_indicator" /\ pc = "exported" /\ exported.kind = "returned"

Table == result.value.data
Records == exported.value.data

IsoDate(ts) == [kind |-> "iso", year |-> ts.year, month |-> ts.month, day |-> ts.day]

\* The record of row r and column c: the records come column by column
RecordOf(r, c) == Records[(c - 1) * Len(Table.index) + r]

\* The source reported a value for the period of row r under the key of
\* column c
Reported(r, c) ==
    \E i \in DOMAIN data.Dados[r].value :
        /\ data.Dados[r].value[i].valor.kind # "absent"
        /\ stat_key(data.Dados[r].value[i]) = Table.columns[c]

\* The source has a record for the period of row r under the key of column
\* c that carries no value
ReportedWithoutValue(r, c) ==
    \E i \in DOMAIN data.Dados[r].value :
        /\ data.Dados[r].value[i].valor.kind = "absent"
        /\ stat_key(data.Dados[r].value[i]) = Table.columns[c]

Pivot(period, levels) ==
    {Records[k].Value : k \in {j \in DOMAIN Records :
        Records[j].Period = period /\ Records[j].levels = levels}}

IsNumeric(cell) == cell.kind = "number" \/ (cell.kind = "str" /\ cell.numeric)

\* C6 (as stated): where no two rows share a date and no two columns a
\* tuple, pivoting the records by period and column gives, at every
\* coordinate where the table holds a value, that value (a string that
\* spells a number counting as the number) and nothing else, and gives no
\* value where the table holds none.
C6_RoundTrip ==
    (Exported /\ Distinct(Table.index) /\ Distinct(Table.columns)) =>
        \A r \in DOMAIN Table.index : \A c \in DOMAIN Table.columns :
            LET cell == Table.values[r][c]
                back == Pivot(IsoDate(Table.index[r]), Table.columns[c])
            IN IF cell = NaN THEN back = {NaN}
               ELSE \E v \in back : /\ back = {v}
                                     /\ v.kind = "number"
                                     /\ IsNumeric(cell)
                                     /\ v.n = cell.n

\* C6 (amended): every record is the cell of its period and column, a number
\* as itself, a string that spells a number as that number, anything else
\* as the null marker; pivoting gives one value per coordinate when no two
\* rows share a date and no two columns a tuple.
C6_RoundTripNumeric ==
    Exported =>
        /\ \A r \in DOMAIN Table.index : \A c \in DOMAIN Table.columns :
                LET cell == Table.values[r][c]
                    back == Pivot(IsoDate(Table.index[r]), Table.columns[c])
                IN /\ IsNumeric(cell) => Number(cell.n) \in back
                   /\ ~IsNumeric(cell) => NaN \in back
                   /\ (Distinct(Table.index) /\ Distinct(Table.columns))
                        => Cardinality(back) = 1
        /\ \A k \in DOMAIN Records :
                \E r \in DOMAIN Table.index : \E c \in DOMAIN Table.columns :
                    /\ Records[k].Period = IsoDate(Table.index[r])
                    /\ Records[k].levels = Table.columns[c]
                    /\ Records[k].Value =
                            IF IsNumeric(Table.values[r][c])
                            THEN Number(Table.values[r][c].n) ELSE NaN

\* An export of a table that holds a string spelling a number and a string
\* that spells none
C6_Witness ==
    /\ Exported
    /\ \E r \in DOMAIN Table.index : \E c \in DOMAIN Table.columns :
            /\ Table.values[r][c] = NumericStr(5)
            /\ Pivot(IsoDate(Table.index[r]), Table.columns[c]) = {Number(5)}
    /\ \E r \in DOMAIN Table.index : \E c \in DOMAIN Table.columns :
            /\ Table.values[r][c] = OtherStr
            /\ Pivot(IsoDate(Table.index[r]), Table.columns[c]) = {NaN}

-----------------------------------------------------------------------------
(* get_indicator: what it returns *)

Built == call = "get_indicator" /\ pc \in {"returned", "exported"}
                                /\ result.kind = "returned"

Merged == result.value.metadata

\* The scalar fields of the two payloads, the metadata payload's value
\* where both carry a key
SourceFields == update(data.fields, metadata.fields)

ConvertedPeriodicities == {"Annual", "Decennial", "Quarterly", "Monthly"}

\* C7: under the four periodicities, first_period and last_period of the
\* merged metadata are the ISO dates of a raw period label the payloads
\* carry under a source key of that name (PrimeiroPeriodo; UltimoPref or
\* UltimoPeriodo), whichever keys are carried and in whatever order.
C7_PeriodFieldsISO ==
    (Built /\ metadata.Periodic \in ConvertedPeriodicities) =>
        \A name \in {"first_period", "last_period"} :
            HasKey(Merged, name) =>
                /\ Get(Merged, name).kind = "iso"
                /\ \E key \in PeriodKeys :
                        /\ metadata_key_map_get(key) = name
                        /\ HasKey(SourceFields, key)
                        /\ Get(Merged, name) =
                                IsoDate(convert_period(metadata.Periodic,
                                                       Get(SourceFields, key).parts))

GivenDescription == Get(SourceFields, "IndicadorDsg")

\* C8 (as stated): the tag is "nuts-2002" if the description contains
\* "(NUTS - 2002)", otherwise "nuts-2013" if it contains "(NUTS - 2013)",
\* otherwise "national"; a description with both markers is tagged with the
\* older standard.
C8_OlderMarkerFirst ==
    Built =>
        Get(Merged, "geo_level").text =
            IF GivenDescription.nuts2002 THEN "nuts-2002"
            ELSE IF GivenDescription.nuts2013 THEN "nuts-2013"
            ELSE "national"

\* C8 (amended): the tag is "nuts-2013" if the description contains
\* "(NUTS - 2013)", otherwise "nuts-2002" if it contains "(NUTS - 2002)",
\* otherwise "national"; a description with both markers is tagged with the
\* newer standard.
C8_NewerMarkerFirst ==
    Built =>
        Get(Merged, "geo_level").text =
            IF GivenDescription.nuts2013 THEN "nuts-2013"
            ELSE IF GivenDescription.nuts2002 THEN "nuts-2002"
            ELSE "national"

\* An Indicator whose description contains both markers
C8_Witness ==
    /\ Built
    /\ GivenDescription.nuts2013 /\ GivenDescription.nuts2002
    /\ Get(Merged, "geo_level").text = "nuts-2013"

RawLabel(i) == data.Dados[i].key

\* The raw labels are spelled as the service spells them: "<ordinal>
\* Quarter <year>" under Quarterly, a capitalised month name under Monthly
ServiceLabels ==
    \A i \in DOMAIN data.Dados :
        /\ metadata.Periodic = "Quarterly" =>
                Len(RawLabel(i)) = 3 /\ RawLabel(i)[2] = "Quarter"
        /\ metadata.Periodic = "Monthly" => RawLabel(i)[1] # lower(RawLabel(i)[1])

\* C9 (as stated): the row labels of the returned table are pairwise
\* distinct, under every periodicity and whatever the ordinals of Quarterly
\* labels.
C9_RowLabelsDistinct == (Built /\ ServiceLabels) => Distinct(Table.index)

Ordinals == {"1st", "2nd", "3rd", "4th"}

\* Two raw labels that the conversion of their periodicity cannot tell
\* apart: Quarterly labels of one year whose ordinals are equal or both
\* none of 1st/2nd/3rd/4th (the word between ordinal and year is not read);
\* Monthly labels of one year whose month names differ in letter case only
SameDate(Periodic, a, b) ==
    CASE Periodic = "Quarterly" ->
            /\ a[3] = b[3]
            /\ a[1] = b[1] \/ (a[1] \notin Ordinals /\ b[1] \notin Ordinals)
      [] Periodic = "Monthly" -> lower(a[1]) = lower(b[1]) /\ a[2] = b[2]
      [] OTHER -> FALSE

\* C9 (amended): the table has one row per raw period label, and two rows
\* have the same label exactly when the conversion cannot tell their raw
\* labels apart.
C9_RowLabelsDistinctUnlessSameDate ==
    Built =>
        /\ Len(Table.index) = Len(data.Dados)
        /\ \A i, j \in DOMAIN Table.index :
                i # j => (Table.index[i] = Table.index[j]
                            <=> SameDate(metadata.Periodic, RawLabel(i), RawLabel(j)))

\* A Quarterly table with two rows of one January, from two different
\* ordinals that are none of the four
C9_Witness ==
    /\ Built
    /\ metadata.Periodic = "Quarterly"
    /\ \E i, j \in DOMAIN Table.index :
            /\ i # j
            /\ RawLabel(i)[1] # RawLabel(j)[1]
            /\ RawLabel(i)[1] \notin Ordinals
            /\ RawLabel(j)[1] \notin Ordinals
            /\ Table.index[i] = Table.index[j]
            /\ Table.index[i].month = 1

\* C10: under a periodicity that is none of the four, get_indicator returns
\* an Indicator whose row labels are the raw period labels of the data
\* payload in their order, also when the payloads carry first-period and
\* last-period fields.
C10_PassThrough ==
    (call = "get_indicator" /\ pc \in {"returned", "exported"} /\ df # None
        /\ metadata.Periodic \notin ConvertedPeriodicities) =>
        /\ result.kind = "returned"
        /\ Table.index = [i \in DOMAIN data.Dados |-> raw_label(RawLabel(i))]

=============================================================================
